---- MODULE Spec2Model ----
(***************************************************************************)
(* Model of structure_chart.py: the class-hierarchy builder (classtree),   *)
(* the graph assembler (generate_dot) and the member classifier            *)
(* (node_label / node_template / section_template).                        *)
(*                                                                         *)
(* Two specifications share the variables:                                 *)
(*   Spec       a run of classtree followed by generate_dot over a bounded *)
(*              universe of classes;                                       *)
(*   LabelSpec  a run of node_label on one class, one loop iteration per   *)
(*              step, over bounded sets of declared members.               *)
(***************************************************************************)
EXTENDS Integers, Sequences, FiniteSets

VARIABLES
    bases,            \* cls.__bases__ of every class (tuple, in order)
    clsname,          \* cls.__name__ of every class
    attrs,            \* inspect.classify_class_attrs(cls) of every class
    abstractmethods,  \* cls.__abstractmethods__ in iteration order (<<>> when absent)
    flags,            \* the module globals include_*
    classes,          \* the root classes handed to classtree
    exclude,          \* the exclude argument / excluded_cls (None or a list)
    pc,               \* position of the run
    tree,             \* the tree returned by classtree
    all_classes,      \* the registry returned by classtree
    dot,              \* the calls made on the Digraph, in order
    cls,              \* node_label: the class being labelled
    pos,              \* node_label: index of the next attribute of the loop
    lists,            \* node_label: the seven local lists
    warnings,         \* node_label: the warnings raised so far
    label             \* node_label: the returned label

vars == <<bases, clsname, attrs, abstractmethods, flags, classes, exclude, pc,
          tree, all_classes, dot, cls, pos, lists, warnings, label>>

\* ------------------------------------------------------------------------
\* Bounds of the model
\* ------------------------------------------------------------------------
NumClasses == 4        \* user classes 1..NumClasses next to object
MaxBases == 2          \* direct user-class bases of one class
MaxSameName == 1       \* classes carrying the name of another class
MaxMembers == 2        \* members declared directly on the labelled class

\* ------------------------------------------------------------------------
\* Generic helpers
\* ------------------------------------------------------------------------
None == "None"

\* a list argument that may be None
NoList == [some |-> FALSE, value |-> <<>>]
Some(l) == [some |-> TRUE, value |-> l]

Range(s) == {s[k] : k \in 1..Len(s)}

Max(S) == CHOOSE x \in S : \A y \in S : y <= x

RECURSIVE DescSeq(_)
DescSeq(S) == IF S = {} THEN <<>> ELSE <<Max(S)>> \o DescSeq(S \ {Max(S)})

RECURSIVE Perms(_)
Perms(S) ==
    IF S = {} THEN {<<>>}
    ELSE UNION {{<<x>> \o p : p \in Perms(S \ {x})} : x \in S}

\* ------------------------------------------------------------------------
\* The universe of classes
\* ------------------------------------------------------------------------
ObjectCls == 0
UserClasses == 1..NumClasses
Classes == {ObjectCls} \cup UserClasses

NameTable == <<"A", "B", "C", "D", "E", "F", "G", "H">>
DefaultName(c) == IF c = ObjectCls THEN "object" ELSE NameTable[NumClasses - c + 1]

\* str `in` list
In(x, list) == x \in Range(list)

\* ------------------------------------------------------------------------
\* Member names are strings, modelled as sequences of characters so that
\* indexing and slicing are what the code does.
\* ------------------------------------------------------------------------
N_underscore == <<"_">>
N_len == <<"_", "_", "l", "e", "n", "_", "_">>
N_x == <<"_", "_", "x">>
N_bar == <<"_", "b", "a", "r">>
N_foo == <<"f", "o", "o">>

\* dir() order (sorted): '_' < '__len__' < '__x' < '_bar' < 'foo'
SortedNames == <<N_underscore, N_len, N_x, N_bar, N_foo>>
MemberNames == Range(SortedNames)

KnownKinds == {"data", "method", "property", "class method", "static method"}
Kinds == KnownKinds \cup {"other"}

Attr(n, k, d) == [name |-> n, kind |-> k, defining_class |-> d]


\* ------------------------------------------------------------------------
\* section_template, node_template (lines 114-176)
\* A label is modelled by its content: the header fields and the sequence
\* of sections, each a title and the member names joined in it.
\* ------------------------------------------------------------------------
section_template(section_name, section) ==
    IF section.some /\ section.value # <<>>
    THEN <<[title |-> section_name, members |-> section.value]>>
    ELSE <<>>

isabstract(c) == abstractmethods[c] # <<>>

ModuleOf(c) == IF c = ObjectCls THEN "builtins" ELSE "__main__"

\* kw holds the eight keyword arguments classmethods .. magicmethods
node_template(c, fillcolor, show_module, kw) ==
    [name |-> clsname[c],
     italic |-> isabstract(c),
     color |-> fillcolor,
     module |-> IF show_module THEN ModuleOf(c) ELSE None,
     sections |->
         section_template("Data attributes", kw.data)
         \o section_template("Properties", kw.properties)
         \o section_template("Methods", kw.methods)
         \o section_template("Abstract methods", kw.abstractmethods)
         \o section_template("Class methods", kw.classmethods)
         \o section_template("Static methods", kw.staticmethods)
         \o section_template("Private members", kw.privatemethods)
         \o section_template("Magic members", kw.magicmethods)]

\* ------------------------------------------------------------------------
\* node_label (lines 179-244)
\* ------------------------------------------------------------------------
ListNames == {"classmethods", "data", "methods", "properties", "staticmethods",
              "privatemethods", "magicmethods"}

EmptyLists == [l \in ListNames |-> <<>>]

\* Python slices name[:2] and name[-2:]
Prefix2(s) == SubSeq(s, 1, IF Len(s) < 2 THEN Len(s) ELSE 2)
Suffix2(s) == SubSeq(s, IF Len(s) < 2 THEN 1 ELSE Len(s) - 1, Len(s))

Dunder == <<"_", "_">>

\* line 211
IsMagicName(n) == Prefix2(n) = Dunder /\ Suffix2(n) = Dunder

\* line 214: attr.name[0] == "_" and attr.name[1] != "_"; the second index is
\* evaluated only when the first test is true, and raises IndexError on a
\* name of one character.
PrivateTest(n) ==
    IF n[1] # "_" THEN "false"
    ELSE IF Len(n) < 2 THEN "IndexError"
    ELSE IF n[2] # "_" THEN "true" ELSE "false"

\* KindBranch with an unknown kind filed as data instead of warned about
KindBranchDefaultData(kind) ==
    CASE kind = "method" -> "methods"
      [] kind = "property" -> "properties"
      [] kind = "class method" -> "classmethods"
      [] kind = "static method" -> "staticmethods"
      [] OTHER -> "data"

\* lines 216-230: the list chosen by attr.kind, "warn" for the else branch
KindBranch(kind) ==
    CASE kind = "data" -> "data"
      [] kind = "method" -> "methods"
      [] kind = "property" -> "properties"
      [] kind = "class method" -> "classmethods"
      [] kind = "static method" -> "staticmethods"
      [] OTHER -> "warn"

\* lines 206-230: what one iteration of the loop does with attr:
\* "continue", the name of the list appended to, "warn" or "IndexError"
Classify(c, attr) ==
    IF attr.defining_class # c THEN "continue"
    ELSE IF IsMagicName(attr.name) THEN "magicmethods"
    ELSE IF PrivateTest(attr.name) = "IndexError" THEN "IndexError"
    ELSE IF PrivateTest(attr.name) = "true" THEN "privatemethods"
    ELSE KindBranch(attr.kind)

InitialLoopState == [lists |-> EmptyLists, warnings |-> <<>>, raised |-> FALSE]

\* one iteration of the for loop of node_label on the state of its locals
LoopBody(c, st, attr) ==
    LET b == Classify(c, attr) IN
    CASE b = "continue" -> st
      [] b = "IndexError" -> [st EXCEPT !.raised = TRUE]
      [] b = "warn" ->
           [st EXCEPT !.warnings = Append(@, <<c, attr.name, attr.kind>>)]
      [] OTHER -> [st EXCEPT !.lists[b] = Append(@, attr.name)]

\* Returned with the flags of the private and the magic list exchanged
ReturnedFlagsSwapped(c, ls, fl, root, show_module) ==
    node_template(c, IF root THEN "red" ELSE "black", show_module,
        [classmethods |-> IF fl.include_classmethods THEN Some(ls.classmethods) ELSE NoList,
         data |-> IF fl.include_data THEN Some(ls.data) ELSE NoList,
         methods |-> IF fl.include_methods THEN Some(ls.methods) ELSE NoList,
         abstractmethods |->
             IF fl.include_abstractmethods THEN Some(abstractmethods[c]) ELSE NoList,
         properties |-> IF fl.include_properties THEN Some(ls.properties) ELSE NoList,
         staticmethods |->
             IF fl.include_staticmethods THEN Some(ls.staticmethods) ELSE NoList,
         privatemethods |->
             IF fl.include_magicmethods THEN Some(ls.privatemethods) ELSE NoList,
         magicmethods |->
             IF fl.include_privatemethods THEN Some(ls.magicmethods) ELSE NoList])

\* lines 232-244: the return statement, reading the include_* globals
Returned(c, ls, fl, root, show_module) ==
    node_template(c, IF root THEN "red" ELSE "black", show_module,
        [classmethods |-> IF fl.include_classmethods THEN Some(ls.classmethods) ELSE NoList,
         data |-> IF fl.include_data THEN Some(ls.data) ELSE NoList,
         methods |-> IF fl.include_methods THEN Some(ls.methods) ELSE NoList,
         abstractmethods |->
             IF fl.include_abstractmethods THEN Some(abstractmethods[c]) ELSE NoList,
         properties |-> IF fl.include_properties THEN Some(ls.properties) ELSE NoList,
         staticmethods |->
             IF fl.include_staticmethods THEN Some(ls.staticmethods) ELSE NoList,
         privatemethods |->
             IF fl.include_privatemethods THEN Some(ls.privatemethods) ELSE NoList,
         magicmethods |->
             IF fl.include_magicmethods THEN Some(ls.magicmethods) ELSE NoList])

RECURSIVE LoopFrom(_, _, _)
LoopFrom(c, st, k) ==
    IF st.raised \/ k > Len(attrs[c]) THEN st
    ELSE LoopFrom(c, LoopBody(c, st, attrs[c][k]), k + 1)

\* the whole call node_label(cls, root, show_module)
node_label(c, root, show_module) ==
    LET st == LoopFrom(c, InitialLoopState, 1) IN
    IF st.raised
    THEN [raised |-> TRUE, label |-> None, warnings |-> st.warnings]
    ELSE [raised |-> FALSE,
          label |-> Returned(c, st.lists, flags, root, show_module),
          warnings |-> st.warnings]

FlagNames == {"include_abstractmethods", "include_classmethods", "include_data",
              "include_methods", "include_properties", "include_staticmethods",
              "include_privatemethods", "include_magicmethods"}

AllOff == [f \in FlagNames |-> FALSE]

\* ------------------------------------------------------------------------
\* classtree_recursion, classtree (lines 247-272)
\* A tree entry is a bare class (a leaf) or a tuple (class, list of entries).
\* ------------------------------------------------------------------------
Leaf(c) == [istuple |-> FALSE, cls |-> c, bases |-> <<>>]
Tuple(c, sub) == [istuple |-> TRUE, cls |-> c, bases |-> sub]

\* Excluded with only object ever left out, as in the commented-out tests
\* "if subtree is object"
ExcludedOnlyObject(c, excl) == c = ObjectCls /\ In("object", excl)

\* line 252: c.__name__ in exclude
Excluded(c, excl) == In(clsname[c], excl)

\* lines 254-255
Register(c, all) == IF In(c, all) THEN all ELSE Append(all, c)

\* the value returned together with the list all_classes it has extended
RECURSIVE classtree_recursion(_, _, _)
classtree_recursion(cs, all, excl) ==
    IF cs = <<>> THEN [out |-> <<>>, all |-> all]
    ELSE
        LET c == Head(cs) IN
        IF Excluded(c, excl) THEN classtree_recursion(Tail(cs), all, excl)
        ELSE
            LET all1 == Register(c, all) IN
            IF bases[c] # <<>>
            THEN
                LET sub == classtree_recursion(bases[c], all1, excl)
                    rest == classtree_recursion(Tail(cs), sub.all, excl)
                IN [out |-> <<Tuple(c, sub.out)>> \o rest.out, all |-> rest.all]
            ELSE
                LET rest == classtree_recursion(Tail(cs), all1, excl)
                IN [out |-> <<Leaf(c)>> \o rest.out, all |-> rest.all]

\* lines 268-269
DefaultExclude(excl) == IF ~excl.some THEN <<>> ELSE excl.value

\* ------------------------------------------------------------------------
\* generate_dot (lines 275-352)
\* dot is the sequence of dot.node / dot.edge calls.  Each call records its
\* arguments and, as history, the class objects they were computed from.
\* ------------------------------------------------------------------------
\* lines 280-286
root_cls(t) == [k \in 1..Len(t) |-> t[k].cls]

NodeCall(c, lab) ==
    [call |-> "node", name |-> clsname[c], label |-> lab, cls |-> c]

\* EdgeStyle with the style taken from the derived class
EdgeStyleOfDerived(b_cls, c) == IF isabstract(c) THEN "dashed" ELSE "solid"

\* line 346
EdgeStyle(b_cls, c) == IF isabstract(b_cls) THEN "dashed" ELSE "solid"

EdgeCall(b_cls, c) ==
    [call |-> "edge", tail_name |-> clsname[b_cls], head_name |-> clsname[c],
     style |-> EdgeStyle(b_cls, c), b_cls |-> b_cls, cls |-> c]

\* line 339: only bases that are tuples get an edge
HasEdge(b) == b.istuple

\* lines 336-349
RECURSIVE Edges(_, _)
Edges(c, bs) ==
    IF bs = <<>> THEN <<>>
    ELSE (IF HasEdge(Head(bs)) THEN <<EdgeCall(Head(bs).cls, c)>> ELSE <<>>)
         \o Edges(c, Tail(bs))

\* recursion with the edges of a class drawn before the walk goes into its
\* bases
RECURSIVE recursionEdgesFirst(_, _, _, _)
recursionEdgesFirst(t, roots, show_module, body) ==
    IF t = <<>> THEN [body |-> body, raised |-> FALSE]
    ELSE
        LET subtree == Head(t)
            lab == node_label(subtree.cls, In(subtree.cls, roots), show_module)
        IN
        IF lab.raised THEN [body |-> body, raised |-> TRUE]
        ELSE
            LET body1 == Append(body, NodeCall(subtree.cls, lab.label)) IN
            IF ~subtree.istuple
            THEN recursionEdgesFirst(Tail(t), roots, show_module, body1)
            ELSE
                LET r == recursionEdgesFirst(subtree.bases, roots, show_module,
                             body1 \o Edges(subtree.cls, subtree.bases))
                IN
                IF r.raised THEN r
                ELSE recursionEdgesFirst(Tail(t), roots, show_module, r.body)

\* lines 304-349: the calls added to body by recursion(t); raised is set when
\* node_label raised, which ends generate_dot
RECURSIVE recursion(_, _, _, _)
recursion(t, roots, show_module, body) ==
    IF t = <<>> THEN [body |-> body, raised |-> FALSE]
    ELSE
        LET subtree == Head(t)
            lab == node_label(subtree.cls, In(subtree.cls, roots), show_module)
        IN
        IF lab.raised THEN [body |-> body, raised |-> TRUE]
        ELSE
            LET body1 == Append(body, NodeCall(subtree.cls, lab.label)) IN
            IF ~subtree.istuple
            THEN recursion(Tail(t), roots, show_module, body1)
            ELSE
                LET r == recursion(subtree.bases, roots, show_module, body1) IN
                IF r.raised THEN r
                ELSE recursion(Tail(t), roots, show_module,
                               r.body \o Edges(subtree.cls, subtree.bases))


\* lines 265-272
classtree(cs, excl) ==
    LET r == classtree_recursion(cs, <<>>, DefaultExclude(excl))
    IN [tree |-> r.out, all_classes |-> r.all]

\* lines 275-352: the body of the Digraph and whether the call raised
generate_dot(t, show_module) == recursion(t, root_cls(t), show_module, <<>>)

\* ------------------------------------------------------------------------
\* Inputs of a run of classtree and generate_dot
\* ------------------------------------------------------------------------
MaxRoots == 2          \* root classes of one run
MaxExclude == 1        \* names the caller puts in the exclusion list

\* The bases of user class c: object alone, or up to MaxBases classes defined
\* before it, later-defined first (an order Python accepts for these sizes).
BaseLists(c) ==
    {<<ObjectCls>>} \cup
    {DescSeq(S) : S \in {T \in SUBSET (1..(c - 1)) :
                            T # {} /\ Cardinality(T) <= MaxBases}}

Hierarchies ==
    {b \in [Classes -> UNION {BaseLists(c) : c \in UserClasses} \cup {<<>>}] :
        /\ b[ObjectCls] = <<>>
        /\ \A c \in UserClasses : b[c] \in BaseLists(c)}

\* Every class has its own name, except that up to MaxSameName classes carry
\* the name of the class defined just before them (same name, another module).
Namings ==
    {n \in [Classes -> {DefaultName(c) : c \in Classes}] :
        /\ n[ObjectCls] = "object"
        /\ \A c \in UserClasses :
              n[c] = DefaultName(c) \/ (c > 1 /\ n[c] = DefaultName(c - 1))
        /\ Cardinality({c \in UserClasses : n[c] # DefaultName(c)}) <= MaxSameName}

\* issubclass(c, d) under the bases b
RECURSIVE issubclass(_, _, _)
issubclass(b, c, d) ==
    c = d \/ \E k \in 1..Len(b[c]) : issubclass(b, b[c][k], d)

\* At most one class declares a member the run can notice: an abstract
\* method foo, or a data attribute named "_".  Subclasses inherit it.  The
\* magic members every class carries (__doc__, __module__, ...) are left out
\* of attrs here: with every include flag off they reach no label.
Declarations ==
    {[by |-> ObjectCls,
      member |-> [name |-> <<>>, kind |-> "data", abstract |-> FALSE]]} \cup
    {[by |-> c, member |-> m] :
        c \in UserClasses,
        m \in {[name |-> N_foo, kind |-> "method", abstract |-> TRUE],
               [name |-> N_underscore, kind |-> "data", abstract |-> FALSE]}}

AttrsOf(b, d) ==
    [c \in Classes |->
        IF d.by # ObjectCls /\ issubclass(b, c, d.by)
        THEN <<Attr(d.member.name, d.member.kind, d.by)>> ELSE <<>>]

AbstractOf(b, d) ==
    [c \in Classes |->
        IF d.by # ObjectCls /\ d.member.abstract /\ issubclass(b, c, d.by)
        THEN <<d.member.name>> ELSE <<>>]

\* The first root is the class defined last; classes it does not reach play
\* no part in the run.
RootLists ==
    {<<NumClasses>> \o DescSeq(S) :
        S \in {T \in SUBSET (Classes \ {NumClasses}) :
                  Cardinality(T) <= MaxRoots - 1}}

RECURSIVE SetToSeq(_)
SetToSeq(S) ==
    IF S = {} THEN <<>>
    ELSE LET x == CHOOSE y \in S : TRUE IN <<x>> \o SetToSeq(S \ {x})

ExcludeLists ==
    {NoList} \cup
    {Some(SetToSeq(S)) : S \in {T \in SUBSET {DefaultName(c) : c \in Classes} :
                             Cardinality(T) <= MaxExclude}}

Idle ==
    /\ cls = None
    /\ pos = 0
    /\ lists = EmptyLists
    /\ warnings = <<>>
    /\ label = None

Init ==
    /\ bases \in Hierarchies
    /\ clsname \in Namings
    /\ \E d \in Declarations :
          /\ attrs = AttrsOf(bases, d)
          /\ abstractmethods = AbstractOf(bases, d)
    /\ flags = AllOff
    /\ classes \in RootLists
    /\ exclude \in ExcludeLists
    /\ pc = "start"
    /\ tree = <<>>
    /\ all_classes = <<>>
    /\ dot = <<>>
    /\ Idle

world == <<bases, clsname, attrs, abstractmethods, flags, classes>>
labelvars == <<cls, pos, lists, warnings, label>>

\* A caller imports the module and calls classtree(classes, exclude).
Classtree ==
    /\ pc = "start"
    /\ LET r == classtree(classes, exclude) IN
          /\ tree' = r.tree
          /\ all_classes' = r.all_classes
    /\ exclude' = Some(DefaultExclude(exclude))
    /\ pc' = "tree"
    /\ UNCHANGED <<world, dot, labelvars>>

\* The script (lines 413-431, 515): excluded_cls holds the names given after
\* --exclude, "object" is appended, and classtree is called with it.
Main ==
    /\ pc = "start"
    /\ exclude.some
    /\ LET excluded_cls == Append(exclude.value, "object")
           r == classtree(classes, Some(excluded_cls))
       IN /\ exclude' = Some(excluded_cls)
          /\ tree' = r.tree
          /\ all_classes' = r.all_classes
    /\ pc' = "tree"
    /\ UNCHANGED <<world, dot, labelvars>>

\* generate_dot(clstree) with show_module left at its default; when
\* node_label raises, the call ends there and returns no graph.
GenerateDot ==
    /\ pc = "tree"
    /\ LET r == generate_dot(tree, FALSE) IN
          /\ dot' = r.body
          /\ pc' = IF r.raised THEN "error" ELSE "done"
    /\ UNCHANGED <<world, exclude, tree, all_classes, labelvars>>

Next == Classtree \/ Main \/ GenerateDot

Spec == Init /\ [][Next]_vars


\* ------------------------------------------------------------------------
\* Vocabulary of the properties of classtree and generate_dot
\* ------------------------------------------------------------------------
Finished == pc \in {"tree", "done", "error"}

\* the exclusion list classtree worked with
Excl == exclude.value

NameExcluded(c) == clsname[c] \in Range(Excl)

\* the classes reachable from the roots through non-excluded classes
RECURSIVE Closure(_)
Closure(S) ==
    LET T == S \cup {b \in Classes : ~NameExcluded(b) /\ \E c \in S : In(b, bases[c])}
    IN IF T = S THEN S ELSE Closure(T)

Reachable == Closure({c \in Range(classes) : ~NameExcluded(c)})

\* the classes that appear in a tree
RECURSIVE TreeClasses(_)
TreeClasses(t) ==
    IF t = <<>> THEN {}
    ELSE {Head(t).cls} \cup TreeClasses(Head(t).bases) \cup TreeClasses(Tail(t))

NodeIdx == {k \in 1..Len(dot) : dot[k].call = "node"}
EdgeIdx == {k \in 1..Len(dot) : dot[k].call = "edge"}

\* the classes that got a node, the (base, derived) pairs that got an edge
NodeClasses == {dot[k].cls : k \in NodeIdx}
EdgePairs == {<<dot[k].b_cls, dot[k].cls>> : k \in EdgeIdx}

\* root A(B, C) with B(D) and C(D), all names distinct
IsDiamond ==
    /\ classes = <<NumClasses>>
    /\ Len(bases[NumClasses]) = 2
    /\ LET b == bases[NumClasses][1]
           c == bases[NumClasses][2]
       IN /\ Len(bases[b]) = 1 /\ bases[b] = bases[c]
          /\ bases[b][1] # ObjectCls
          /\ bases[bases[b][1]] = <<ObjectCls>>
    /\ \A c \in UserClasses : clsname[c] = DefaultName(c)

DiamondEdges ==
    LET b == bases[NumClasses][1]
        c == bases[NumClasses][2]
        d == bases[b][1]
    IN {<<b, NumClasses>>, <<c, NumClasses>>, <<d, b>>, <<d, c>>}

\* C1: after classtree and generate_dot the nodes (keyed by the name given to
\* dot.node) correspond one-to-one to the classes reachable from the roots
\* through non-excluded classes: every such class has a node, only such
\* classes have one, and two calls address the same node exactly when they
\* are made for the same class.
C1_NodesAreClasses ==
    pc = "done" =>
        /\ NodeClasses = Reachable
        /\ \A j, k \in NodeIdx :
              (dot[j].name = dot[k].name) <=> (dot[j].cls = dot[k].cls)

\* C2: the edges emitted are exactly the pairs (b, c) with c a class of the
\* tree and b a direct base of c whose name is not excluded, bases without
\* bases of their own included; for the diamond these are the four edges
\* B->A, C->A, D->B, D->C.
C2_EdgesAreBasePairs ==
    pc = "done" =>
        /\ EdgePairs = {<<b, c>> \in Classes \X Classes :
                           /\ c \in TreeClasses(tree)
                           /\ In(b, bases[c])
                           /\ ~NameExcluded(b)}
        /\ \A k \in EdgeIdx :
              /\ dot[k].tail_name = clsname[dot[k].b_cls]
              /\ dot[k].head_name = clsname[dot[k].cls]
        /\ IsDiamond /\ Range(Excl) \subseteq {"object"} => EdgePairs = DiamondEdges

\* what remains of C2 when object is kept out of the tree
C2_WithObjectExcluded ==
    In("object", Excl) => C2_EdgesAreBasePairs

\* root A(B, C), B and C deriving from object alone, C excluded
IsExcludedBase ==
    /\ classes = <<NumClasses>>
    /\ Len(bases[NumClasses]) = 2
    /\ \A k \in 1..2 : bases[bases[NumClasses][k]] = <<ObjectCls>>
    /\ \A c \in UserClasses : clsname[c] = DefaultName(c)
    /\ ~NameExcluded(NumClasses)
    /\ ~NameExcluded(bases[NumClasses][1])
    /\ NameExcluded(bases[NumClasses][2])

Appears(c) ==
    \/ c \in TreeClasses(tree)
    \/ In(c, all_classes)
    \/ \E k \in NodeIdx : dot[k].cls = c
    \/ \E k \in EdgeIdx : dot[k].b_cls = c \/ dot[k].cls = c

NameAppears(n) ==
    \/ \E k \in NodeIdx : dot[k].name = n
    \/ \E k \in EdgeIdx : dot[k].tail_name = n \/ dot[k].head_name = n

\* C4: a class whose name is excluded, or that is reachable from the roots
\* only through excluded classes, is nowhere in the tree, the registry, the
\* nodes or the edge endpoints, and an excluded name names no node and no
\* edge endpoint; a class reachable through non-excluded classes is in the
\* tree and the registry and has a node once generate_dot has returned.
\* With root A(B, C) and C excluded the only edge is B->A.
C4_ExcludedNowhere ==
    Finished =>
        /\ \A c \in Classes \ Reachable : ~Appears(c)
        /\ \A c \in Classes : NameExcluded(c) => ~NameAppears(clsname[c])
        /\ \A c \in Reachable :
              /\ c \in TreeClasses(tree)
              /\ In(c, all_classes)
              /\ pc = "done" => c \in NodeClasses
        /\ pc = "done" /\ IsExcludedBase =>
              EdgePairs = {<<bases[NumClasses][1], NumClasses>>}

\* a run in which an excluded base of the root hides one of its own bases
\* while another of its bases is still reached on a path around it
C4_Witness ==
    /\ pc = "done"
    /\ \E x \in UserClasses, y, z \in UserClasses :
          /\ In(x, bases[NumClasses]) /\ NameExcluded(x)
          /\ In(y, bases[x]) /\ y \notin Reachable
          /\ In(z, bases[x]) /\ z \in Reachable /\ z \in NodeClasses

\* the scenario of C4 has run
C4_ScenarioWitness == pc = "done" /\ IsExcludedBase /\ dot # <<>>

\* C5: object is excluded by default: whatever exclusion list classtree is
\* called with (none, or one that does not name object), object is not in
\* the tree, not in the registry, and gets no node and no edge.
C5_ObjectExcludedByDefault ==
    Finished => ~Appears(ObjectCls) /\ ~NameAppears("object")

\* what the script guarantees by appending "object" itself
C5_WhenObjectNamed ==
    Finished /\ In("object", Excl) => ~Appears(ObjectCls) /\ ~NameAppears("object")

\* C7: every edge is dashed exactly when its base class is abstract, that is
\* when the base's __abstractmethods__ is non-empty, and solid otherwise,
\* whatever the derived class is.
C7_DashedIffBaseAbstract ==
    \A k \in EdgeIdx :
        /\ dot[k].style \in {"dashed", "solid"}
        /\ dot[k].style = "dashed" <=> abstractmethods[dot[k].b_cls] # <<>>

\* an abstract class with an edge from an abstract base (dashed) and an edge
\* from a concrete base (solid)
C7_Witness ==
    /\ pc = "done"
    /\ \E j, k \in EdgeIdx :
          /\ dot[j].cls = dot[k].cls
          /\ abstractmethods[dot[j].cls] # <<>>
          /\ abstractmethods[dot[j].b_cls] # <<>> /\ dot[j].style = "dashed"
          /\ abstractmethods[dot[k].b_cls] = <<>> /\ dot[k].style = "solid"


\* ------------------------------------------------------------------------
\* Inputs of a run of node_label
\* The labelled class is the class defined last; its only base is the class
\* defined before it.
\* ------------------------------------------------------------------------
Labelled == NumClasses
LabelledBase == NumClasses - 1

Member(n, k, a) == [name |-> n, kind |-> k, abstract |-> a]

\* what a class body can declare under one name
MembersNamed(n) ==
    {Member(n, k, FALSE) : k \in Kinds} \cup {Member(n, "method", TRUE)}

\* the members declared directly on the labelled class: up to MaxMembers
OwnDeclarations ==
    UNION {{ms \in SUBSET UNION {MembersNamed(n) : n \in ns} :
               /\ Cardinality(ms) = Cardinality(ns)
               /\ \A n \in ns : \E m \in ms : m.name = n} :
           ns \in {T \in SUBSET MemberNames : Cardinality(T) <= MaxMembers}}

\* the members declared on its base
BaseDeclarations ==
    {{}, {Member(N_foo, "method", FALSE)}, {Member(N_foo, "method", TRUE)},
     {Member(N_underscore, "data", FALSE)}}

\* classify_class_attrs(c): the names of dir(c) in sorted order, each with the
\* class that defines it (own declarations hide those of the base b)
ClassAttrs(own, inh, c, b) ==
    LET names == SelectSeq(SortedNames, LAMBDA n : \E m \in own \cup inh : m.name = n)
    IN [k \in 1..Len(names) |->
           IF \E m \in own : m.name = names[k]
           THEN Attr(names[k], (CHOOSE m \in own : m.name = names[k]).kind, c)
           ELSE Attr(names[k], (CHOOSE m \in inh : m.name = names[k]).kind, b)]

\* __abstractmethods__ as ABCMeta computes it: the abstract names declared on
\* the class and those of the base that the class does not redefine
AbstractNames(own, inh) ==
    {m.name : m \in {x \in own : x.abstract}} \cup
    {m.name : m \in {x \in inh : x.abstract /\ \A y \in own : y.name # x.name}}

AllFlags == [FlagNames -> BOOLEAN]

LabelInit ==
    /\ bases = [c \in Classes |->
                   IF c = ObjectCls THEN <<>>
                   ELSE IF c = Labelled THEN <<LabelledBase>> ELSE <<ObjectCls>>]
    /\ clsname = [c \in Classes |-> DefaultName(c)]
    /\ \E own \in OwnDeclarations, inh \in BaseDeclarations :
          /\ attrs = [c \in Classes |->
                         IF c = Labelled
                         THEN ClassAttrs(own, inh, Labelled, LabelledBase)
                         ELSE IF c = LabelledBase
                         THEN ClassAttrs(inh, {}, LabelledBase, ObjectCls)
                         ELSE <<>>]
          /\ \E order \in Perms(AbstractNames(own, inh)) :
                abstractmethods = [c \in Classes |->
                                      IF c = Labelled THEN order
                                      ELSE IF c = LabelledBase
                                      THEN SetToSeq(AbstractNames(inh, {}))
                                      ELSE <<>>]
    /\ flags = AllOff
    /\ classes = <<Labelled>>
    /\ exclude = NoList
    /\ tree = <<>>
    /\ all_classes = <<>>
    /\ dot = <<>>
    /\ pc = "loop"
    /\ cls = Labelled
    /\ pos = 1
    /\ lists = EmptyLists
    /\ warnings = <<>>
    /\ label = None

graphvars == <<classes, exclude, tree, all_classes, dot>>

\* one iteration of the loop of lines 204-230
ClassifyAttr ==
    /\ pc = "loop"
    /\ pos <= Len(attrs[cls])
    /\ LET st == LoopBody(cls, [lists |-> lists, warnings |-> warnings,
                                raised |-> FALSE], attrs[cls][pos])
       IN /\ lists' = st.lists
          /\ warnings' = st.warnings
          /\ pc' = IF st.raised THEN "raised" ELSE "loop"
          /\ pos' = IF st.raised THEN pos ELSE pos + 1
    /\ UNCHANGED <<bases, clsname, attrs, abstractmethods, flags, graphvars,
                   cls, label>>

\* the return statement of lines 232-244, for whatever values the globals
\* include_* were given before the call
NodeLabelReturn ==
    /\ pc = "loop"
    /\ pos > Len(attrs[cls])
    /\ \E fl \in AllFlags :
          /\ flags' = fl
          /\ label' = Returned(cls, lists, fl, FALSE, FALSE)
    /\ pc' = "returned"
    /\ UNCHANGED <<bases, clsname, attrs, abstractmethods, graphvars,
                   cls, pos, lists, warnings>>

LabelNext == ClassifyAttr \/ NodeLabelReturn

LabelSpec == LabelInit /\ [][LabelNext]_vars


\* ------------------------------------------------------------------------
\* Vocabulary of the properties of node_label
\* ------------------------------------------------------------------------
\* the attributes the labelled class declares itself
OwnIdx == {k \in 1..Len(attrs[cls]) : attrs[cls][k].defining_class = cls}
OwnNames == {attrs[cls][k].name : k \in OwnIdx}

\* the loop has gone past attribute k
Passed(k) == k < pos

\* the name patterns as the specification words them
StartsAndEndsWithDunder(n) ==
    /\ Len(n) >= 2
    /\ n[1] = "_" /\ n[2] = "_"
    /\ n[Len(n) - 1] = "_" /\ n[Len(n)] = "_"

SingleLeadingUnderscore(n) ==
    /\ n[1] = "_"
    /\ Len(n) >= 2 => n[2] # "_"

\* the list a kind stands for
ListOfKind ==
    [k \in KnownKinds |->
        CASE k = "data" -> "data"
          [] k = "method" -> "methods"
          [] k = "property" -> "properties"
          [] k = "class method" -> "classmethods"
          [] k = "static method" -> "staticmethods"]

\* the bucket of a member by the priority magic > private > kind
BucketOf(a) ==
    IF StartsAndEndsWithDunder(a.name) THEN "magicmethods"
    ELSE IF SingleLeadingUnderscore(a.name) THEN "privatemethods"
    ELSE IF a.kind \in KnownKinds THEN ListOfKind[a.kind]
    ELSE "none"

Buckets == ListNames \cup {"abstractmethods"}

TitleOf ==
    [b \in Buckets |->
        CASE b = "data" -> "Data attributes"
          [] b = "properties" -> "Properties"
          [] b = "methods" -> "Methods"
          [] b = "abstractmethods" -> "Abstract methods"
          [] b = "classmethods" -> "Class methods"
          [] b = "staticmethods" -> "Static methods"
          [] b = "privatemethods" -> "Private members"
          [] b = "magicmethods" -> "Magic members"]

FlagOf ==
    [b \in Buckets |->
        CASE b = "data" -> "include_data"
          [] b = "properties" -> "include_properties"
          [] b = "methods" -> "include_methods"
          [] b = "abstractmethods" -> "include_abstractmethods"
          [] b = "classmethods" -> "include_classmethods"
          [] b = "staticmethods" -> "include_staticmethods"
          [] b = "privatemethods" -> "include_privatemethods"
          [] b = "magicmethods" -> "include_magicmethods"]

SectionIdx == 1..Len(label.sections)
Listed(n, k) == In(n, label.sections[k].members)
ListedAnywhere(n) == \E k \in SectionIdx : Listed(n, k)

\* the members of a bucket: those the priority files in it, and for the
\* abstract bucket the names of __abstractmethods__
MembersOf(b) ==
    IF b = "abstractmethods" THEN Range(abstractmethods[cls])
    ELSE {attrs[cls][k].name : k \in {j \in OwnIdx : BucketOf(attrs[cls][j]) = b}}

\* C3: every name shown in any section of the label is the name of a member
\* whose defining class is the labelled class; a name defined only on a base
\* class is never shown.
C3_OnlyOwnMembers ==
    pc = "returned" =>
        \A k \in SectionIdx : Range(label.sections[k].members) \subseteq OwnNames

\* what remains of C3 outside the section of abstract methods
C3_OutsideAbstractSection ==
    pc = "returned" =>
        \A k \in SectionIdx :
            label.sections[k].title # "Abstract methods" =>
                Range(label.sections[k].members) \subseteq OwnNames

\* C6 as stated: when the flag of a bucket is off, the label has no section
\* for the bucket and no member of the bucket is listed in any section.
C6_DisabledBucketAbsent ==
    pc = "returned" =>
        \A b \in Buckets :
            ~flags[FlagOf[b]] =>
                /\ \A k \in SectionIdx : label.sections[k].title # TitleOf[b]
                /\ \A n \in MembersOf(b) : ~ListedAnywhere(n)

\* C6 as amended: when the flag of a bucket is off the label has no section
\* for the bucket; a name is listed only in the section of the name/kind
\* bucket it is filed in, or in the section of abstract methods when it is in
\* __abstractmethods__.  So a member of a disabled name/kind bucket is
\* listed at most under the abstract methods, and a member of the disabled
\* abstract bucket at most under its own name/kind section.
C6_DisabledBucketOmitted ==
    pc = "returned" =>
        /\ \A b \in Buckets :
              ~flags[FlagOf[b]] =>
                  \A k \in SectionIdx : label.sections[k].title # TitleOf[b]
        /\ \A k \in SectionIdx : \A n \in Range(label.sections[k].members) :
              \/ /\ label.sections[k].title = TitleOf["abstractmethods"]
                 /\ n \in MembersOf("abstractmethods")
              \/ \E b \in ListNames :
                    /\ label.sections[k].title = TitleOf[b]
                    /\ n \in MembersOf(b)

\* a label with private off and abstract on for a class with a private
\* abstract method next to a second member in an enabled bucket
C6_Witness ==
    /\ pc = "returned"
    /\ ~flags["include_privatemethods"] /\ flags["include_abstractmethods"]
    /\ \E n \in MembersOf("privatemethods") : n \in MembersOf("abstractmethods")
    /\ \E b \in ListNames :
          /\ flags[FlagOf[b]] /\ MembersOf(b) # {}
          /\ \E k \in SectionIdx : label.sections[k].title = TitleOf[b]
    /\ \E b \in ListNames : ~flags[FlagOf[b]] /\ MembersOf(b) # {}

\* C8: when node_label ends, every member declared on the class with one of
\* the five known kinds is in exactly one of the seven lists, the one given
\* by the priority magic > private > kind.
C8_ExactlyOneBucket ==
    pc \in {"returned", "raised"} =>
        \A k \in OwnIdx :
            attrs[cls][k].kind \in KnownKinds =>
                \A l \in ListNames :
                    In(attrs[cls][k].name, lists[l]) <=> l = BucketOf(attrs[cls][k])

\* what remains of C8 for the members the loop has gone past
C8_PassedMembers ==
    \A k \in OwnIdx :
        Passed(k) /\ attrs[cls][k].kind \in KnownKinds =>
            \A l \in ListNames :
                In(attrs[cls][k].name, lists[l]) <=> l = BucketOf(attrs[cls][k])

\* C9: node_label has no fatal error path: whatever the non-empty names of
\* the declared members, one-character names included, no error is raised.
C9_NoFatalError == pc # "raised"

\* what the raised error is: the index [1] of a one-character name "_"
C9_OnlyUnderscoreRaises ==
    pc = "raised" => attrs[cls][pos].name = N_underscore /\ pos \in OwnIdx

Warned(a) == In(<<cls, a.name, a.kind>>, warnings)
InNoList(a) == \A l \in ListNames : ~In(a.name, lists[l])

\* C10 as stated: a declared member of unknown kind, whatever its name
\* (public, private or magic), has got a warning and is in none of the lists
\* once the loop has gone past it to the remaining members.
C10_UnknownKindWarned ==
    \A k \in OwnIdx :
        attrs[cls][k].kind \notin KnownKinds /\ Passed(k) =>
            Warned(attrs[cls][k]) /\ InNoList(attrs[cls][k])

\* C10 as amended: a declared member of unknown kind gets a warning and no
\* bucket, and the loop goes on to the next member, when its name matches
\* neither the magic nor the private pattern; one with a magic name is filed
\* under magic and one with a private name under private, without a warning;
\* one named "_" raises IndexError before its kind is looked at.
C10_UnknownKindByName ==
    \A k \in OwnIdx :
        LET a == attrs[cls][k] IN
        a.kind \notin KnownKinds =>
            /\ a.name = N_underscore => ~Passed(k)
            /\ Passed(k) =>
                  IF StartsAndEndsWithDunder(a.name) \/ SingleLeadingUnderscore(a.name)
                  THEN /\ ~Warned(a)
                       /\ \A l \in ListNames : In(a.name, lists[l]) <=> l = BucketOf(a)
                  ELSE Warned(a) /\ InNoList(a)
            /\ pc = "raised" /\ pos = k => a.name = N_underscore

\* a member of unknown kind with a public name was warned about and the
\* member after it has been classified into its list
C10_Witness ==
    /\ pc = "loop"
    /\ \E j, k \in OwnIdx :
          /\ j < k /\ Passed(k)
          /\ attrs[cls][j].kind \notin KnownKinds
          /\ Warned(attrs[cls][j]) /\ InNoList(attrs[cls][j])
          /\ In(attrs[cls][k].name, lists[BucketOf(attrs[cls][k])])

\* a member of unknown kind with a private name has been filed under private
C10_PrivateWitness ==
    \E k \in OwnIdx :
        /\ Passed(k)
        /\ attrs[cls][k].kind \notin KnownKinds
        /\ In(attrs[cls][k].name, lists["privatemethods"])


\* ------------------------------------------------------------------------
\* The order of the calls made by generate_dot
\* ------------------------------------------------------------------------
IsNodeOf(k, c) == k \in NodeIdx /\ dot[k].cls = c
IsEdge(k, b, c) == k \in EdgeIdx /\ dot[k].b_cls = b /\ dot[k].cls = c

\* the bases of b that get an edge into b: those in the tree as tuples
EdgeBases(b) ==
    {a \in Range(bases[b]) : ~NameExcluded(a) /\ bases[a] # <<>>}

\* C11 as stated: every edge b -> c is emitted before the walk recurses into
\* the subtree of b, so the node of b emitted by that recursion follows it.
C11_EdgeBeforeSubtree ==
    pc = "done" =>
        \A k \in EdgeIdx : \E i \in NodeIdx : i > k /\ dot[i].cls = dot[k].b_cls

\* C11 as amended: every edge b -> c is emitted after the walk has returned
\* from the subtrees of the bases of c: after the node of c, after a node of
\* b that follows it, and after the edges into b from the bases of b that
\* follow that node of b.
C11_EdgeAfterSubtree ==
    \A k \in EdgeIdx :
        LET b == dot[k].b_cls
            c == dot[k].cls
        IN \E j, i \in 1..(k - 1) :
              /\ j < i
              /\ IsNodeOf(j, c)
              /\ IsNodeOf(i, b)
              /\ \A a \in EdgeBases(b) :
                    \E e \in (i + 1)..(k - 1) : IsEdge(e, a, b)

\* a finished walk with an edge b -> c whose base b has an edge of its own
\* from one of its bases
C11_Witness ==
    /\ pc = "done"
    /\ \E k \in EdgeIdx :
          /\ EdgeBases(dot[k].b_cls) # {}
          /\ \E e \in 1..(k - 1) : \E a \in Classes : IsEdge(e, a, dot[k].b_cls)

====
